---- MODULE Spec2Model ----
(***************************************************************************)
(* Crow_01: a two-route HTTPS demo server (Crow_01.cpp) and the vendored   *)
(* asio deadline timer (include/asio/basic_deadline_timer.hpp).            *)
(*                                                                         *)
(* Spec      : the server process: main()'s startup steps, the worker      *)
(*             threads that dispatch requests to the two handlers, and the *)
(*             external events that end the process.                       *)
(* TimerSpec : one deadline timer, the calls a client makes on it, the     *)
(*             clock, and the io_context that runs completion handlers;    *)
(*             with weak fairness of the clock and the io_context.         *)
(***************************************************************************)
EXTENDS Integers, Sequences, FiniteSets, TLC

\* ------------------------------------------------------------------ bounds

\* Requests a run of the server receives.
MaxReqs == 2
\* Worker threads of multithreaded() (std::thread::hardware_concurrency()).
NumWorkers == 2
\* Calls to async_wait() in a run of the timer.
MaxWaits == 3
\* Last instant of the clock; expiry times lie in 0..MaxTime.
MaxTime == 2

\* --------------------------------------------------------------- constants

\* app.port(18080)
Port == 18080

Methods == {"GET", "POST", "PUT"}
Paths == {"/", "/other"}
FileStates == {"ok", "missing", "malformed"}

ReqIds == 1..MaxReqs
Workers == 1..NumWorkers
WaitIds == 1..MaxWaits
Times == 0..MaxTime

VARIABLES
  pc,         \* main()'s position
  routes,     \* the app's route table
  creds,      \* the TLS credential pair handed to ssl_file, <<>> before
  port,       \* the configured port, 0 before port()
  concurrency,\* worker threads configured by multithreaded()
  listening,  \* the listener is bound and accepting
  tlsOn,      \* the listener terminates TLS
  loop,       \* the blocking run loop: "idle", "running", "returned"
  exitCode,   \* "none" while the process lives, then "0" or "abnormal"
  certFile,   \* state of ssl/cert.pem on disk
  keyFile,    \* state of ssl/key.pem on disk
  portFree,   \* whether port 18080 can be bound
  reqs,       \* the requests of this run, by arrival number
  stdout,     \* what has been written to standard output, in order
  now,        \* the clock
  expiry,     \* the timer's expiry time
  ops,        \* the wait operations, by the number of their async_wait() call
  timerQ,     \* the waits pending on the timer, oldest first
  readyQ,     \* the completed waits queued for their handler to be invoked
  inCall,     \* the wait whose async_wait() call has not returned yet, or 0
  last        \* the last member function called, and what it returned

svars == <<pc, routes, creds, port, concurrency, listening, tlsOn, loop,
           exitCode, certFile, keyFile, portFree, reqs, stdout>>

tvars == <<now, expiry, ops, timerQ, readyQ, inCall, last>>

vars == <<svars, tvars>>

\* ---------------------------------------------------------------- handlers

\* Faulty variant: the body carries the log line's spelling.
GetHandlerMisspelt ==
  [log |-> "Received and responded with 'Succesful'", body |-> "Succesful"]

\* The lambda of CROW_ROUTE(app, "/"): its log line and its return value.
GetHandler ==
  [log |-> "Received and responded with 'Succesful'", body |-> "Successful"]

\* Faulty variant: the POST lambda returns the GET lambda's string.
PostHandlerCopied ==
  [log |-> "POST Request received and responded", body |-> "Successful"]

\* The lambda of CROW_ROUTE(app, "/").methods(Post).
PostHandler ==
  [log |-> "POST Request received and responded", body |-> "Test"]

NoHandler == [log |-> "", body |-> ""]

\* Faulty variant: the first route is registered on another path.
GetRouteOtherPath ==
  [method |-> "GET", path |-> "/other", handler |-> GetHandler]

\* CROW_ROUTE(app, "/") with no methods(): the default method, GET.
GetRoute == [method |-> "GET", path |-> "/", handler |-> GetHandler]

\* CROW_ROUTE(app, "/").methods(crow::HTTPMethod::Post)
PostRoute == [method |-> "POST", path |-> "/", handler |-> PostHandler]

CertPath == "ssl/cert.pem"
KeyPath == "ssl/key.pem"

\* ----------------------------------------------------------------- runtime

\* The rules of the table that match a request.
Lookup(table, m, p) == {r \in table : r.method = m /\ r.path = p}

\* A handler's returned string becomes a response with the default status.
OkResponse(body) == <<200, body>>

\* The router's answer when no rule matches.
NotFoundResponse == <<404, "">>

\* ssl_file() succeeds only when both files are readable PEM.
SslFileLoads(cert, key) == cert = "ok" /\ key = "ok"

NoRequest ==
  [method |-> "GET", path |-> "/", st |-> "none", thread |-> 0,
   handler |-> NoHandler, body |-> "", resp |-> <<>>, nresp |-> 0]

Alive == pc = "running" /\ loop = "running"

BusyWorkers == {reqs[i].thread : i \in ReqIds} \ {0}

\* An exception nobody catches: std::terminate ends the process.
Uncaught ==
  /\ pc' = "aborted"
  /\ exitCode' = "abnormal"
  /\ listening' = FALSE
  /\ loop' = loop

\* -------------------------------------------------------------------- main

ServerInit ==
  /\ pc = "start"
  /\ routes = {}
  /\ creds = <<>>
  /\ port = 0
  /\ concurrency = 1
  /\ listening = FALSE
  /\ tlsOn = FALSE
  /\ loop = "idle"
  /\ exitCode = "none"
  /\ certFile \in FileStates
  /\ keyFile \in FileStates
  /\ portFree \in BOOLEAN
  /\ reqs = [i \in ReqIds |-> NoRequest]
  /\ stdout = <<>>

\* Faulty variant: the first route is never registered.
MainRegisterGetSkipped ==
  /\ pc = "start"
  /\ routes' = routes
  /\ pc' = "get_registered"
  /\ UNCHANGED <<creds, port, concurrency, listening, tlsOn, loop, exitCode,
                 certFile, keyFile, portFree, reqs, stdout>>
  /\ UNCHANGED tvars

\* CROW_ROUTE(app, "/")([]() {...});
MainRegisterGet ==
  /\ pc = "start"
  /\ routes' = routes \cup {GetRoute}
  /\ pc' = "get_registered"
  /\ UNCHANGED <<creds, port, concurrency, listening, tlsOn, loop, exitCode,
                 certFile, keyFile, portFree, reqs, stdout>>
  /\ UNCHANGED tvars

\* Faulty variant: registering the second rule on "/" replaces the first.
MainRegisterPostReplaces ==
  /\ pc = "get_registered"
  /\ routes' = {PostRoute}
  /\ pc' = "post_registered"
  /\ UNCHANGED <<creds, port, concurrency, listening, tlsOn, loop, exitCode,
                 certFile, keyFile, portFree, reqs, stdout>>
  /\ UNCHANGED tvars

\* CROW_ROUTE(app, "/").methods(crow::HTTPMethod::Post)([]() {...});
MainRegisterPost ==
  /\ pc = "get_registered"
  /\ routes' = routes \cup {PostRoute}
  /\ pc' = "post_registered"
  /\ UNCHANGED <<creds, port, concurrency, listening, tlsOn, loop, exitCode,
                 certFile, keyFile, portFree, reqs, stdout>>
  /\ UNCHANGED tvars

\* Faulty variant: the ssl_file() call is missing from main.
MainSslFileSkipped ==
  /\ pc = "post_registered"
  /\ pc' = "ssl_loaded"
  /\ UNCHANGED <<routes, creds, port, concurrency, listening, tlsOn, loop,
                 exitCode, certFile, keyFile, portFree, reqs, stdout>>
  /\ UNCHANGED tvars

\* Faulty variant: a failure to load the credentials is swallowed.
MainSslFileIgnoresFailure ==
  /\ pc = "post_registered"
  /\ creds' = IF SslFileLoads(certFile, keyFile) THEN <<CertPath, KeyPath>>
              ELSE creds
  /\ pc' = "ssl_loaded"
  /\ UNCHANGED <<routes, port, concurrency, listening, tlsOn, loop, exitCode,
                 certFile, keyFile, portFree, reqs, stdout>>
  /\ UNCHANGED tvars

\* app.ssl_file("ssl/cert.pem", "ssl/key.pem"); a failure is not caught.
MainSslFile ==
  /\ pc = "post_registered"
  /\ \/ /\ SslFileLoads(certFile, keyFile)
        /\ creds' = <<CertPath, KeyPath>>
        /\ pc' = "ssl_loaded"
        /\ UNCHANGED <<listening, loop, exitCode>>
     \/ /\ ~SslFileLoads(certFile, keyFile)
        /\ creds' = creds
        /\ Uncaught
  /\ UNCHANGED <<routes, port, concurrency, tlsOn, certFile, keyFile,
                 portFree, reqs, stdout>>
  /\ UNCHANGED tvars

\* Faulty variant: main catches the bind failure and returns 0.
MainRunCatchesFailure ==
  /\ pc = "ssl_loaded"
  /\ port' = Port
  /\ concurrency' = NumWorkers
  /\ \/ /\ portFree
        /\ listening' = TRUE
        /\ tlsOn' = (creds # <<>>)
        /\ loop' = "running"
        /\ pc' = "running"
        /\ exitCode' = exitCode
     \/ /\ ~portFree
        /\ UNCHANGED <<listening, tlsOn, loop>>
        /\ pc' = "returned"
        /\ exitCode' = "0"
  /\ UNCHANGED <<routes, creds, certFile, keyFile, portFree, reqs, stdout>>
  /\ UNCHANGED tvars

\* app.port(18080).multithreaded().run(); a bind failure is not caught.
MainRun ==
  /\ pc = "ssl_loaded"
  /\ port' = Port
  /\ concurrency' = NumWorkers
  /\ \/ /\ portFree
        /\ listening' = TRUE
        /\ tlsOn' = (creds # <<>>)
        /\ loop' = "running"
        /\ pc' = "running"
        /\ exitCode' = exitCode
     \/ /\ ~portFree
        /\ tlsOn' = tlsOn
        /\ Uncaught
  /\ UNCHANGED <<routes, creds, certFile, keyFile, portFree, reqs, stdout>>
  /\ UNCHANGED tvars

\* Faulty variant: the run call does not block, and main returns at once.
MainReturnWithoutWaiting ==
  /\ pc = "running"
  /\ pc' = "returned"
  /\ exitCode' = "0"
  /\ listening' = FALSE
  /\ UNCHANGED <<routes, creds, port, concurrency, tlsOn, loop, certFile,
                 keyFile, portFree, reqs, stdout>>
  /\ UNCHANGED tvars

\* return 0; reached only when the blocking run() has returned.
MainReturn ==
  /\ pc = "running"
  /\ loop = "returned"
  /\ pc' = "returned"
  /\ exitCode' = "0"
  /\ listening' = FALSE
  /\ UNCHANGED <<routes, creds, port, concurrency, tlsOn, loop, certFile,
                 keyFile, portFree, reqs, stdout>>
  /\ UNCHANGED tvars

\* ---------------------------------------------------------------- requests

\* A client connects and sends request i; requests are numbered as they arrive.
Connect(i, m, p) ==
  /\ Alive
  /\ listening
  /\ reqs[i].st = "none"
  /\ \A j \in ReqIds : j < i => reqs[j].st # "none"
  /\ reqs' = [reqs EXCEPT ![i] = [NoRequest EXCEPT !.method = m, !.path = p,
                                                   !.st = "accepted"]]
  /\ UNCHANGED <<pc, routes, creds, port, concurrency, listening, tlsOn, loop,
                 exitCode, certFile, keyFile, portFree, stdout>>
  /\ UNCHANGED tvars

\* An idle worker thread w routes request i: to its handler, or to not-found.
Dispatch(i, w) ==
  /\ Alive
  /\ reqs[i].st = "accepted"
  /\ w \in (1..concurrency) \ BusyWorkers
  /\ LET found == Lookup(routes, reqs[i].method, reqs[i].path)
     IN  \/ /\ found # {}
            /\ \E r \in found :
                 reqs' = [reqs EXCEPT ![i].st = "handler", ![i].thread = w,
                                      ![i].handler = r.handler]
         \/ /\ found = {}
            /\ reqs' = [reqs EXCEPT ![i].st = "responded",
                                    ![i].resp = NotFoundResponse,
                                    ![i].nresp = @ + 1]
  /\ UNCHANGED <<pc, routes, creds, port, concurrency, listening, tlsOn, loop,
                 exitCode, certFile, keyFile, portFree, stdout>>
  /\ UNCHANGED tvars

\* Faulty variant: a lock around the logging: a handler writes its text only
\* when no other handler is between its text and its newline.
HandlerLogTextLocked(i) ==
  /\ Alive
  /\ reqs[i].st = "handler"
  /\ \A j \in ReqIds : reqs[j].st # "text_written"
  /\ stdout' = Append(stdout, [req |-> i, text |-> reqs[i].handler.log])
  /\ reqs' = [reqs EXCEPT ![i].st = "text_written"]
  /\ UNCHANGED <<pc, routes, creds, port, concurrency, listening, tlsOn, loop,
                 exitCode, certFile, keyFile, portFree>>
  /\ UNCHANGED tvars

\* std::cout << "...": the handler's text reaches standard output.
HandlerLogText(i) ==
  /\ Alive
  /\ reqs[i].st = "handler"
  /\ stdout' = Append(stdout, [req |-> i, text |-> reqs[i].handler.log])
  /\ reqs' = [reqs EXCEPT ![i].st = "text_written"]
  /\ UNCHANGED <<pc, routes, creds, port, concurrency, listening, tlsOn, loop,
                 exitCode, certFile, keyFile, portFree>>
  /\ UNCHANGED tvars

\* << std::endl: the newline, and the flush.
HandlerLogEndl(i) ==
  /\ Alive
  /\ reqs[i].st = "text_written"
  /\ stdout' = Append(stdout, [req |-> i, text |-> "\n"])
  /\ reqs' = [reqs EXCEPT ![i].st = "logged"]
  /\ UNCHANGED <<pc, routes, creds, port, concurrency, listening, tlsOn, loop,
                 exitCode, certFile, keyFile, portFree>>
  /\ UNCHANGED tvars

\* Faulty variant: the handler returns its body without having logged.
HandlerReturnBeforeLog(i) ==
  /\ Alive
  /\ reqs[i].st \in {"handler", "logged"}
  /\ reqs' = [reqs EXCEPT ![i].st = "returned", ![i].body = reqs[i].handler.body]
  /\ UNCHANGED <<pc, routes, creds, port, concurrency, listening, tlsOn, loop,
                 exitCode, certFile, keyFile, portFree, stdout>>
  /\ UNCHANGED tvars

\* return "...": the handler hands its body to the runtime.
HandlerReturn(i) ==
  /\ Alive
  /\ reqs[i].st = "logged"
  /\ reqs' = [reqs EXCEPT ![i].st = "returned", ![i].body = reqs[i].handler.body]
  /\ UNCHANGED <<pc, routes, creds, port, concurrency, listening, tlsOn, loop,
                 exitCode, certFile, keyFile, portFree, stdout>>
  /\ UNCHANGED tvars

\* The runtime writes the response and the worker thread is free again.
SendResponse(i) ==
  /\ Alive
  /\ reqs[i].st = "returned"
  /\ reqs' = [reqs EXCEPT ![i].st = "responded", ![i].thread = 0,
                          ![i].resp = OkResponse(reqs[i].body),
                          ![i].nresp = @ + 1]
  /\ UNCHANGED <<pc, routes, creds, port, concurrency, listening, tlsOn, loop,
                 exitCode, certFile, keyFile, portFree, stdout>>
  /\ UNCHANGED tvars

\* ---------------------------------------------------------------- external

\* Something outside the process makes the blocking run loop return.
ExternalStop ==
  /\ Alive
  /\ loop' = "returned"
  /\ listening' = FALSE
  /\ UNCHANGED <<pc, routes, creds, port, concurrency, tlsOn, exitCode,
                 certFile, keyFile, portFree, reqs, stdout>>
  /\ UNCHANGED tvars

\* The process is killed from outside.
ExternalKill ==
  /\ Alive
  /\ pc' = "killed"
  /\ exitCode' = "abnormal"
  /\ listening' = FALSE
  /\ UNCHANGED <<routes, creds, port, concurrency, tlsOn, loop, certFile,
                 keyFile, portFree, reqs, stdout>>
  /\ UNCHANGED tvars

ServerNext ==
  \/ MainRegisterGet
  \/ MainRegisterPost
  \/ MainSslFile
  \/ MainRun
  \/ MainReturn
  \/ \E i \in ReqIds, m \in Methods, p \in Paths : Connect(i, m, p)
  \/ \E i \in ReqIds, w \in Workers : Dispatch(i, w)
  \/ \E i \in ReqIds : HandlerLogText(i)
  \/ \E i \in ReqIds : HandlerLogEndl(i)
  \/ \E i \in ReqIds : HandlerReturn(i)
  \/ \E i \in ReqIds : SendResponse(i)
  \/ ExternalStop
  \/ ExternalKill

\* ------------------------------------------------------------------- timer

NoWait == [st |-> "none", ec |-> "none", calls |-> 0]
NoCall == [op |-> "none", ret |-> 0]

Range(q) == {q[k] : k \in 1..Len(q)}

\* The timer service cancels the k oldest pending waits: each is queued for
\* invocation with operation_aborted. n is the number cancelled.
Aborted(k) ==
  LET victims == SubSeq(timerQ, 1, k)
  IN  [tq |-> SubSeq(timerQ, k + 1, Len(timerQ)),
       rq |-> readyQ \o victims,
       ops |-> [id \in WaitIds |->
                 IF id \in Range(victims)
                 THEN [ops[id] EXCEPT !.st = "queued", !.ec = "operation_aborted"]
                 ELSE ops[id]],
       n |-> k]

\* service.cancel(): every pending wait.
ServiceCancel == Aborted(Len(timerQ))

\* service.cancel_one(): the oldest pending wait, if there is one.
ServiceCancelOne == Aborted(IF timerQ = <<>> THEN 0 ELSE 1)

\* The timer has expired: its expiry time is not in the future.
Expired == expiry <= now

\* Faulty variant: the initiation hands the handler to the service twice.
InitiateTwice(id) == <<id, id>>

\* initiate_async_wait::operator(): one service.async_wait() for the handler.
Initiate(id) == <<id>>

\* The server state while only the timer is exercised.
ServerIdle ==
  /\ ServerInit
  /\ certFile = "ok" /\ keyFile = "ok" /\ portFree

\* No timer activity while only the server is exercised.
TimerIdle ==
  /\ now = 0
  /\ expiry = 0
  /\ ops = [id \in WaitIds |-> NoWait]
  /\ timerQ = <<>>
  /\ readyQ = <<>>
  /\ inCall = 0
  /\ last = NoCall

\* basic_deadline_timer(ex, expiry_time): a timer with an expiry time set.
TimerInit ==
  /\ now = 0
  /\ expiry \in Times
  /\ ops = [id \in WaitIds |-> NoWait]
  /\ timerQ = <<>>
  /\ readyQ = <<>>
  /\ inCall = 0
  /\ last = NoCall

\* Faulty variant: cancel() forwards to the service's cancel_one().
CancelCallsCancelOne ==
  /\ inCall = 0
  /\ LET r == ServiceCancelOne
     IN  /\ timerQ' = r.tq
         /\ readyQ' = r.rq
         /\ ops' = r.ops
         /\ last' = [op |-> "cancel", ret |-> r.n]
  /\ UNCHANGED <<now, expiry, inCall>>
  /\ UNCHANGED svars

\* cancel(): s = service.cancel(impl, ec); throw_error(ec); return s.
Cancel ==
  /\ inCall = 0
  /\ LET r == ServiceCancel
     IN  /\ timerQ' = r.tq
         /\ readyQ' = r.rq
         /\ ops' = r.ops
         /\ last' = [op |-> "cancel", ret |-> r.n]
  /\ UNCHANGED <<now, expiry, inCall>>
  /\ UNCHANGED svars

\* Faulty variant: cancel_one() forwards to the service's cancel().
CancelOneCallsCancel ==
  /\ inCall = 0
  /\ LET r == ServiceCancel
     IN  /\ timerQ' = r.tq
         /\ readyQ' = r.rq
         /\ ops' = r.ops
         /\ last' = [op |-> "cancel_one", ret |-> r.n]
  /\ UNCHANGED <<now, expiry, inCall>>
  /\ UNCHANGED svars

\* cancel_one(): s = service.cancel_one(impl, ec); throw_error(ec); return s.
CancelOne ==
  /\ inCall = 0
  /\ LET r == ServiceCancelOne
     IN  /\ timerQ' = r.tq
         /\ readyQ' = r.rq
         /\ ops' = r.ops
         /\ last' = [op |-> "cancel_one", ret |-> r.n]
  /\ UNCHANGED <<now, expiry, inCall>>
  /\ UNCHANGED svars

\* Faulty variant: the count returned includes the waits already queued for
\* invocation.
ExpiresAtCountsQueued(t) ==
  /\ inCall = 0
  /\ LET r == ServiceCancel
     IN  /\ timerQ' = r.tq
         /\ readyQ' = r.rq
         /\ ops' = r.ops
         /\ last' = [op |-> "expires_at", ret |-> r.n + Len(readyQ)]
  /\ expiry' = t
  /\ UNCHANGED <<now, inCall>>
  /\ UNCHANGED svars

\* expires_at(t): the service cancels the pending waits and sets the expiry.
ExpiresAt(t) ==
  /\ inCall = 0
  /\ LET r == ServiceCancel
     IN  /\ timerQ' = r.tq
         /\ readyQ' = r.rq
         /\ ops' = r.ops
         /\ last' = [op |-> "expires_at", ret |-> r.n]
  /\ expiry' = t
  /\ UNCHANGED <<now, inCall>>
  /\ UNCHANGED svars

\* Faulty variant: the duration is taken for an absolute time.
ExpiresFromNowAsAbsolute(d) ==
  /\ inCall = 0
  /\ now + d \in Times
  /\ LET r == ServiceCancel
     IN  /\ timerQ' = r.tq
         /\ readyQ' = r.rq
         /\ ops' = r.ops
         /\ last' = [op |-> "expires_from_now", ret |-> r.n]
  /\ expiry' = d
  /\ UNCHANGED <<now, inCall>>
  /\ UNCHANGED svars

\* expires_from_now(d): as expires_at(now + d).
ExpiresFromNow(d) ==
  /\ inCall = 0
  /\ now + d \in Times
  /\ LET r == ServiceCancel
     IN  /\ timerQ' = r.tq
         /\ readyQ' = r.rq
         /\ ops' = r.ops
         /\ last' = [op |-> "expires_from_now", ret |-> r.n]
  /\ expiry' = now + d
  /\ UNCHANGED <<now, inCall>>
  /\ UNCHANGED svars

\* Faulty variant: the getter forwards to the relative getter.
GetExpiresAtRelative ==
  /\ inCall = 0
  /\ last' = [op |-> "expires_at()", ret |-> expiry - now]
  /\ UNCHANGED <<now, expiry, ops, timerQ, readyQ, inCall>>
  /\ UNCHANGED svars

\* expires_at() const: the expiry time the service holds for the timer.
GetExpiresAt ==
  /\ inCall = 0
  /\ last' = [op |-> "expires_at()", ret |-> expiry]
  /\ UNCHANGED <<now, expiry, ops, timerQ, readyQ, inCall>>
  /\ UNCHANGED svars

\* expires_from_now() const: the expiry time relative to now.
GetExpiresFromNow ==
  /\ inCall = 0
  /\ last' = [op |-> "expires_from_now()", ret |-> expiry - now]
  /\ UNCHANGED <<now, expiry, ops, timerQ, readyQ, inCall>>
  /\ UNCHANGED svars

\* Faulty variant: on a timer that has expired the initiation calls the
\* handler itself.
AsyncWaitBeginInvokesInline(id) ==
  /\ inCall = 0
  /\ ops[id].st = "none"
  /\ \A k \in WaitIds : k < id => ops[k].st # "none"
  /\ IF Expired
     THEN /\ ops' = [ops EXCEPT ![id] = [st |-> "done", ec |-> "success",
                                         calls |-> 1]]
          /\ timerQ' = timerQ
     ELSE /\ ops' = [ops EXCEPT ![id].st = "pending"]
          /\ timerQ' = timerQ \o Initiate(id)
  /\ inCall' = id
  /\ UNCHANGED <<now, expiry, readyQ, last>>
  /\ UNCHANGED svars

\* async_wait(token) is entered: the initiation starts wait id on the timer.
\* Waits are numbered in the order of their calls.
AsyncWaitBegin(id) ==
  /\ inCall = 0
  /\ ops[id].st = "none"
  /\ \A k \in WaitIds : k < id => ops[k].st # "none"
  /\ ops' = [ops EXCEPT ![id].st = "pending"]
  /\ timerQ' = timerQ \o Initiate(id)
  /\ inCall' = id
  /\ UNCHANGED <<now, expiry, readyQ, last>>
  /\ UNCHANGED svars

\* async_wait() returns to its caller.
AsyncWaitEnd ==
  /\ inCall # 0
  /\ inCall' = 0
  /\ last' = [op |-> "async_wait", ret |-> 0]
  /\ UNCHANGED <<now, expiry, ops, timerQ, readyQ>>
  /\ UNCHANGED svars

\* Time passes.
Tick ==
  /\ now < MaxTime
  /\ now' = now + 1
  /\ UNCHANGED <<expiry, ops, timerQ, readyQ, inCall, last>>
  /\ UNCHANGED svars

\* The io_context finds the timer expired: every pending wait is queued for
\* invocation with a success code.
Reap ==
  /\ Expired
  /\ timerQ # <<>>
  /\ ops' = [id \in WaitIds |->
              IF id \in Range(timerQ)
              THEN [ops[id] EXCEPT !.st = "queued", !.ec = "success"]
              ELSE ops[id]]
  /\ readyQ' = readyQ \o timerQ
  /\ timerQ' = <<>>
  /\ UNCHANGED <<now, expiry, inCall, last>>
  /\ UNCHANGED svars

\* The io_context invokes the handler of the first queued wait.
RunHandler ==
  /\ readyQ # <<>>
  /\ LET id == Head(readyQ)
     IN  ops' = [ops EXCEPT ![id].st = "done", ![id].calls = @ + 1]
  /\ readyQ' = Tail(readyQ)
  /\ UNCHANGED <<now, expiry, timerQ, inCall, last>>
  /\ UNCHANGED svars

TimerNext ==
  \/ Cancel
  \/ CancelOne
  \/ \E t \in Times : ExpiresAt(t)
  \/ \E d \in Times : ExpiresFromNow(d)
  \/ GetExpiresAt
  \/ GetExpiresFromNow
  \/ \E id \in WaitIds : AsyncWaitBegin(id)
  \/ AsyncWaitEnd
  \/ Tick
  \/ Reap
  \/ RunHandler

\* --------------------------------------------------------- specifications

Init == ServerInit /\ TimerIdle

Next == ServerNext

Spec == Init /\ [][Next]_vars

TInit == TimerInit /\ ServerIdle

\* The clock advances and the io_context is run.
TimerFairness == WF_vars(Tick) /\ WF_vars(Reap) /\ WF_vars(RunHandler)

TimerSpec == TInit /\ [][TimerNext]_vars /\ TimerFairness

\* ------------------------------------------------------------------ claims

IsGetRoot(i) == reqs[i].st # "none" /\ reqs[i].method = "GET" /\ reqs[i].path = "/"
IsPostRoot(i) == reqs[i].st # "none" /\ reqs[i].method = "POST" /\ reqs[i].path = "/"
IsUnregistered(i) == reqs[i].st # "none" /\ ~IsGetRoot(i) /\ ~IsPostRoot(i)
InHandler(i) == reqs[i].st \in {"handler", "text_written", "logged", "returned"}

\* The entries of standard output written for request i, in order.
LinesOf(i) == SelectSeq(stdout, LAMBDA e : e.req = i)

\* C1: every response to a GET / is status 200 with the body exactly
\* "Successful", whatever else the other worker threads are handling.
C1_GetAnswer ==
  \A i \in ReqIds :
    IsGetRoot(i) =>
      /\ reqs[i].resp \in {<<>>, <<200, "Successful">>}
      /\ reqs[i].st = "responded" => reqs[i].resp = <<200, "Successful">>

\* A GET / has been answered while another request is inside its handler.
C1_Witness ==
  \E i, j \in ReqIds :
    /\ i # j
    /\ IsGetRoot(i) /\ reqs[i].st = "responded"
    /\ InHandler(j)

\* C2: every response to a POST / is status 200 with the body exactly "Test",
\* whatever else the other worker threads are handling.
C2_PostAnswer ==
  \A i \in ReqIds :
    IsPostRoot(i) =>
      /\ reqs[i].resp \in {<<>>, <<200, "Test">>}
      /\ reqs[i].st = "responded" => reqs[i].resp = <<200, "Test">>

\* A POST / has been answered while another request is inside its handler.
C2_Witness ==
  \E i, j \in ReqIds :
    /\ i # j
    /\ IsPostRoot(i) /\ reqs[i].st = "responded"
    /\ InHandler(j)

\* C3: under every interleaving each request runs the handler of its own route
\* and gets its own body (a GET / never "Test", a POST / never "Successful"),
\* and is answered once: a request has one response exactly when it is
\* responded, and never more than one.
C3_NoCrossTalk ==
  \A i \in ReqIds :
    /\ reqs[i].nresp <= 1
    /\ (reqs[i].st = "responded") <=> (reqs[i].nresp = 1)
    /\ (reqs[i].st = "responded") <=> (reqs[i].resp # <<>>)
    /\ IsGetRoot(i) =>
         /\ reqs[i].body \in {"", "Successful"}
         /\ reqs[i].st = "returned" => reqs[i].body = "Successful"
         /\ reqs[i].st = "responded" => reqs[i].resp[2] = "Successful"
    /\ IsPostRoot(i) =>
         /\ reqs[i].body \in {"", "Test"}
         /\ reqs[i].st = "returned" => reqs[i].body = "Test"
         /\ reqs[i].st = "responded" => reqs[i].resp[2] = "Test"

\* A GET / and a POST / are in flight at once on two worker threads, each with
\* the body its handler returned.
C3_Witness ==
  \E i, j \in ReqIds :
    /\ IsGetRoot(i) /\ reqs[i].st = "returned"
    /\ IsPostRoot(j) /\ reqs[j].st = "returned"
    /\ reqs[i].thread # reqs[j].thread

\* C4: a request that is neither GET / nor POST / runs no handler, writes
\* nothing to standard output, and is answered with the not-found response.
C4_Unregistered ==
  \A i \in ReqIds :
    IsUnregistered(i) =>
      /\ reqs[i].st \in {"accepted", "responded"}
      /\ reqs[i].handler = [log |-> "", body |-> ""]
      /\ reqs[i].body = ""
      /\ LinesOf(i) = <<>>
      /\ reqs[i].st = "responded" => reqs[i].resp = <<404, "">>

\* An unregistered request has been answered in a run that also ran a handler.
C4_Witness ==
  \E i \in ReqIds :
    /\ IsUnregistered(i) /\ reqs[i].st = "responded"
    /\ stdout # <<>>

\* C5: with ssl/cert.pem or ssl/key.pem missing or malformed the server never
\* listens: no run loop, no connection accepted, no request served.
C5_BadCredentials ==
  (certFile # "ok" \/ keyFile # "ok") =>
    /\ ~listening
    /\ loop = "idle"
    /\ pc \notin {"ssl_loaded", "running", "returned"}
    /\ \A i \in ReqIds : reqs[i].st = "none"

\* Startup has failed on a malformed key file.
C5_Witness == certFile = "ok" /\ keyFile = "malformed" /\ pc = "aborted"

\* C6: when port 18080 cannot be bound, startup ends in an uncaught failure:
\* the process ends abnormally, serves nothing, and main never returns 0.
C6_BindFailure ==
  ~portFree =>
    /\ ~listening
    /\ loop = "idle"
    /\ pc # "returned" /\ exitCode # "0"
    /\ port = 18080 => pc = "aborted" /\ exitCode = "abnormal"
    /\ \A i \in ReqIds : reqs[i].st = "none"

\* The credentials loaded and the bind failed.
C6_Witness ==
  /\ ~portFree /\ creds # <<>> /\ port = 18080
  /\ pc = "aborted"

\* The log line each registered route writes.
LogLineOf(i) ==
  IF reqs[i].method = "GET" THEN "Received and responded with 'Succesful'"
  ELSE "POST Request received and responded"

\* C7: once the handler of a GET / or POST / has returned, and so whenever the
\* response is produced, that request's log line and its newline are on
\* standard output.
C7_LogBeforeResponse ==
  \A i \in ReqIds :
    (IsGetRoot(i) \/ IsPostRoot(i)) /\ reqs[i].st \in {"returned", "responded"} =>
      LinesOf(i) = <<[req |-> i, text |-> LogLineOf(i)],
                     [req |-> i, text |-> "\n"]>>

\* A GET / and a POST / have both been answered.
C7_Witness ==
  \E i, j \in ReqIds :
    /\ IsGetRoot(i) /\ reqs[i].st = "responded"
    /\ IsPostRoot(j) /\ reqs[j].st = "responded"

\* C8: while it listens the server is in its run loop; only an external event
\* ends the listening, never a request or a step of the server itself; and
\* the exit code is 0 only after the run loop returned and main returned.
C8_RunsUntilTerminated ==
  /\ [](listening => pc = "running" /\ loop = "running" /\ exitCode = "none")
  /\ [][listening /\ ~listening' => ExternalStop \/ ExternalKill]_vars
  /\ [](exitCode = "0" => pc = "returned" /\ loop = "returned")

\* The server answered every request of the run, then was stopped from outside
\* and main returned 0.
C8_Witness ==
  /\ pc = "returned" /\ exitCode = "0"
  /\ \A i \in ReqIds : reqs[i].st = "responded"

\* The (method, path) pairs of the route table.
RouteKeys == {<<r.method, r.path>> : r \in routes}

Bound == pc \in {"running", "returned", "killed"}

\* C9: from the bind on the route table is exactly {(GET, /), (POST, /)} and
\* the credential pair is the one loaded at startup, and no step changes
\* either.
C9_RoutesImmutable ==
  /\ [](Bound => /\ RouteKeys = {<<"GET", "/">>, <<"POST", "/">>}
                 /\ Cardinality(routes) = 2
                 /\ creds = <<"ssl/cert.pem", "ssl/key.pem">>)
  /\ [][Bound => routes' = routes /\ creds' = creds]_vars

\* Requests were served and the process has ended.
C9_Witness ==
  /\ pc \in {"returned", "killed"}
  /\ \E i \in ReqIds : reqs[i].st = "responded"

\* How often wait id stands in queue q.
Occurs(q, id) == Cardinality({k \in 1..Len(q) : q[k] = id})

\* A started wait is in exactly one place: pending on the timer, queued for
\* invocation, or invoked once; its handler has never run twice, and runs
\* with a success code or operation_aborted only.
C10_Conserved ==
  \A id \in WaitIds :
    /\ ops[id].calls <= 1
    /\ ops[id].st = "none" => Occurs(timerQ, id) + Occurs(readyQ, id) = 0
    /\ ops[id].st # "none" =>
         Occurs(timerQ, id) + Occurs(readyQ, id) + ops[id].calls = 1
    /\ ops[id].st = "pending" <=> Occurs(timerQ, id) = 1
    /\ ops[id].st = "queued" <=> Occurs(readyQ, id) = 1
    /\ ops[id].st = "done" <=> ops[id].calls = 1
    /\ ops[id].st \in {"queued", "done"} =>
         ops[id].ec \in {"success", "operation_aborted"}

\* C10: the handler of every async_wait() call is called exactly once, with a
\* success code or operation_aborted: in every state a started wait is
\* pending, queued or invoked once, never invoked twice, and every started
\* wait is eventually invoked, whatever is called on the timer meanwhile.
C10_ExactlyOnce ==
  /\ []C10_Conserved
  /\ \A id \in WaitIds : (ops[id].st # "none") ~> (ops[id].calls = 1)

\* Every wait of the run has been invoked, some on expiry and some on a
\* cancellation, after calls to cancel_one() and to a setter of the expiry.
C10_Witness ==
  /\ \A id \in WaitIds : ops[id].st = "done" /\ ops[id].calls = 1
  /\ \E id \in WaitIds : ops[id].ec = "success"
  /\ \E id \in WaitIds : ops[id].ec = "operation_aborted"
  /\ last.op \in {"expires_at", "expires_from_now"}

\* The waits pending on the timer.
Pending == {id \in WaitIds : ops[id].st = "pending"}

\* Wait id has been cancelled: it is queued for invocation, or has been
\* invoked, with operation_aborted.
AbortedIn(o, id) ==
  /\ o[id].st \in {"queued", "done"}
  /\ o[id].ec = "operation_aborted"

\* C11: a cancel() on a timer that has not expired leaves no wait pending,
\* hands every wait that was pending to its handler with operation_aborted,
\* and returns their number; a cancelled wait's code stays operation_aborted
\* until and after its handler runs.
C11_CancelAll ==
  /\ [][Cancel /\ ~Expired =>
          /\ timerQ' = <<>>
          /\ \A id \in WaitIds : ops'[id].st # "pending"
          /\ \A id \in Pending : ops'[id].st = "queued" /\ AbortedIn(ops', id)
          /\ last'.op = "cancel"
          /\ last'.ret = Cardinality(Pending)]_vars
  /\ [][\A id \in WaitIds : AbortedIn(ops, id) => AbortedIn(ops', id)]_vars

\* cancel() returned 2 on a timer that has not expired, and both cancelled
\* handlers have run with operation_aborted.
C11_Witness ==
  /\ last = [op |-> "cancel", ret |-> 2]
  /\ ~Expired
  /\ Cardinality({id \in WaitIds : ops[id].st = "done" /\ ops[id].calls = 1
                                   /\ ops[id].ec = "operation_aborted"}) = 2
  /\ Pending = {}

\* The pending wait that was started first: waits are numbered by their calls.
Earliest == CHOOSE id \in Pending : \A k \in Pending : id <= k

\* C12: cancel_one() returns 0 or 1. With nothing pending it returns 0 and
\* changes no wait; otherwise it returns 1, the wait that was started earliest
\* is queued with operation_aborted, and every other wait is left as it was,
\* the other pending ones still pending in their order.
C12_CancelOneFifo ==
  [][CancelOne =>
       /\ last'.op = "cancel_one"
       /\ last'.ret \in {0, 1}
       /\ Pending = {} => last'.ret = 0 /\ ops' = ops /\ timerQ' = timerQ
       /\ Pending # {} =>
            /\ last'.ret = 1
            /\ ops'[Earliest].st = "queued" /\ AbortedIn(ops', Earliest)
            /\ \A id \in WaitIds \ {Earliest} : ops'[id] = ops[id]
            /\ timerQ' = SelectSeq(timerQ, LAMBDA id : id # Earliest)
            /\ Cardinality(Pending) - 1 =
                 Cardinality({id \in WaitIds : ops'[id].st = "pending"})]_vars

\* cancel_one() returned 1 with three waits pending: the first was cancelled
\* and the two started after it are still pending.
C12_Witness ==
  /\ last = [op |-> "cancel_one", ret |-> 1]
  /\ AbortedIn(ops, 1)
  /\ ops[2].st = "pending" /\ ops[3].st = "pending"
  /\ timerQ = <<2, 3>>

\* What a setter of the expiry time does to the waits: none is left pending,
\* each wait that was pending is queued with operation_aborted, and their
\* number is returned.
CancelsPending ==
  /\ timerQ' = <<>>
  /\ \A id \in WaitIds : ops'[id].st # "pending"
  /\ \A id \in Pending : ops'[id].st = "queued" /\ AbortedIn(ops', id)
  /\ last'.ret = Cardinality(Pending)

\* C13: expires_at(t) and expires_from_now(d) cancel every wait pending at the
\* call, return their number, and make the expiry time t, or the time of the
\* call plus d; a wait completes with a success code only when the expiry
\* time then in force has been reached, so a wait started after the call
\* completes against the new expiry time.
C13_SetExpiry ==
  /\ [][\A t \in Times : ExpiresAt(t) =>
          /\ CancelsPending
          /\ last'.op = "expires_at"
          /\ expiry' = t]_vars
  /\ [][\A d \in Times : ExpiresFromNow(d) =>
          /\ CancelsPending
          /\ last'.op = "expires_from_now"
          /\ expiry' = now + d]_vars
  /\ [][\A id \in WaitIds :
          ops[id].ec # "success" /\ ops'[id].ec = "success" =>
            /\ ops[id].st = "pending"
            /\ expiry <= now
            /\ expiry' = expiry]_vars

\* expires_from_now() at a time after 0 cancelled two waits, and the wait
\* started after it has completed with a success code.
C13_Witness ==
  /\ last = [op |-> "expires_from_now", ret |-> 2]
  /\ AbortedIn(ops, 1) /\ AbortedIn(ops, 2)
  /\ ops[3].st \in {"queued", "done"} /\ ops[3].ec = "success"
  /\ expiry = MaxTime /\ now = MaxTime

\* A step of one of the four calls that cancel waits.
CancellingCall ==
  \/ Cancel
  \/ CancelOne
  \/ \E t \in Times : ExpiresAt(t)
  \/ \E d \in Times : ExpiresFromNow(d)

\* The waits this step cancels.
NewlyAborted ==
  {id \in WaitIds : ops[id].ec # "operation_aborted"
                    /\ ops'[id].ec = "operation_aborted"}

\* C14: when cancel(), cancel_one(), expires_at(t) or expires_from_now(d) is
\* called on an expired timer, a wait whose handler has been invoked or is
\* queued for invocation is left as it is and is not counted in the return
\* value, which counts the waits the call took from the pending ones; and a
\* wait that completed with a success code keeps it, never operation_aborted.
C14_TooLateToCancel ==
  /\ [][CancellingCall /\ Expired =>
          /\ \A id \in WaitIds :
               ops[id].st \in {"queued", "done"} => ops'[id] = ops[id]
          /\ NewlyAborted \subseteq Pending
          /\ last'.ret = Cardinality(NewlyAborted)
          /\ SubSeq(readyQ', 1, Len(readyQ)) = readyQ]_vars
  /\ [][\A id \in WaitIds :
          ops[id].ec = "success" =>
            ops'[id].ec = "success" /\ ops'[id].st \in {"queued", "done"}]_vars

\* expires_at() on an expired timer returned 1: the first wait's handler had
\* run and the second was queued, both with a success code, and only the
\* third, still pending, was cancelled.
C14_Witness ==
  /\ last = [op |-> "expires_at", ret |-> 1]
  /\ ops[1].st = "done" /\ ops[1].ec = "success"
  /\ ops[2].st = "queued" /\ ops[2].ec = "success"
  /\ AbortedIn(ops, 3)
  /\ readyQ = <<2, 3>>

\* C15: cancel() and cancel_one() leave the expiry time as it is, and so does
\* every step but a setter, the timer's expiring included; expires_at()
\* returns that expiry time, expires_from_now() returns it relative to now,
\* and neither getter changes a wait or a queue.
C15_ExpiryKept ==
  /\ [][Cancel \/ CancelOne => expiry' = expiry]_vars
  /\ [][expiry' # expiry =>
          \/ \E t \in Times : ExpiresAt(t) /\ expiry' = t
          \/ \E d \in Times : ExpiresFromNow(d) /\ expiry' = now + d]_vars
  /\ [][GetExpiresAt =>
          /\ last' = [op |-> "expires_at()", ret |-> expiry]
          /\ UNCHANGED <<expiry, ops, timerQ, readyQ>>]_vars
  /\ [][GetExpiresFromNow =>
          /\ last' = [op |-> "expires_from_now()", ret |-> expiry - now]
          /\ UNCHANGED <<expiry, ops, timerQ, readyQ>>]_vars

\* expires_at() returned the expiry time 1 at time 2, after the timer expired
\* and after a cancellation, with a wait still pending.
C15_Witness ==
  /\ last = [op |-> "expires_at()", ret |-> 1]
  /\ expiry = 1 /\ now = 2
  /\ \E id \in WaitIds : AbortedIn(ops, id)
  /\ Pending # {}

\* C16 as claimed: while an async_wait() call has not returned, the handler of
\* its wait has not run.
C16_ReturnsBeforeHandler ==
  inCall # 0 => ops[inCall].calls = 0 /\ ops[inCall].st # "done"

\* C16, amended: no step of an async_wait() call invokes a handler, whether
\* or not the timer has expired: the call leaves its wait pending or queued;
\* every invocation is a step of the io_context, which takes the wait from the
\* head of its queue of completed waits. (The io_context may take that step
\* before the call has returned.)
C16_NotFromWithin ==
  /\ [][\A id \in WaitIds :
          AsyncWaitBegin(id) =>
            /\ \A k \in WaitIds : ops'[k].calls = ops[k].calls
            /\ ops'[id].st = "pending"
            /\ ops'[id].calls = 0]_vars
  /\ [][AsyncWaitEnd => ops' = ops /\ readyQ' = readyQ]_vars
  /\ [][\A id \in WaitIds :
          ops'[id].calls # ops[id].calls =>
            /\ RunHandler
            /\ ops[id].st = "queued"
            /\ readyQ # <<>> /\ Head(readyQ) = id
            /\ ops'[id].calls = ops[id].calls + 1]_vars

\* async_wait() was called on a timer that had expired and has not returned:
\* its wait has completed and is queued, and its handler has not run.
C16_Witness ==
  /\ inCall = 1
  /\ expiry = 0 /\ now = 0
  /\ ops[1] = [st |-> "queued", ec |-> "success", calls |-> 0]
  /\ readyQ = <<1>>

\* The next step of request i's handling can be taken now.
CanStep(i) ==
  /\ reqs[i].st = "handler" => ENABLED HandlerLogText(i)
  /\ reqs[i].st = "text_written" => ENABLED HandlerLogEndl(i)
  /\ reqs[i].st = "logged" => ENABLED HandlerReturn(i)
  /\ reqs[i].st = "returned" => ENABLED SendResponse(i)

\* The body of the route of request i.
OwnBody(i) == IF reqs[i].method = "GET" THEN "Successful" ELSE "Test"

\* C17: two requests in their handlers at the same time are on different
\* worker threads and neither waits for the other: each one's next step (its
\* text, its newline, its return, its response) can be taken whatever the
\* other has done, so they complete, and their log lines and newlines reach
\* standard output, in either order; and each keeps the log line and the
\* body of its own route.
C17_NoOrdering ==
  /\ \A i, j \in ReqIds :
       i # j /\ Alive /\ InHandler(i) /\ InHandler(j) =>
         /\ reqs[i].thread # reqs[j].thread
         /\ CanStep(i) /\ CanStep(j)
  /\ \A i \in ReqIds :
       IsGetRoot(i) \/ IsPostRoot(i) =>
         /\ \A k \in 1..Len(LinesOf(i)) :
              LinesOf(i)[k].text = <<LogLineOf(i), "\n">>[k]
         /\ Len(LinesOf(i)) <= 2
         /\ reqs[i].body \in {"", OwnBody(i)}
         /\ reqs[i].resp \in {<<>>, <<200, OwnBody(i)>>}

\* The POST / that arrived second has been answered while the GET / that
\* arrived first is still between its text and its newline: the second log
\* line stands inside the first on standard output.
C17_Witness ==
  /\ IsGetRoot(1) /\ reqs[1].st = "text_written"
  /\ IsPostRoot(2) /\ reqs[2].st = "responded" /\ reqs[2].resp = <<200, "Test">>
  /\ Len(stdout) = 3
  /\ stdout[1] = [req |-> 1, text |-> "Received and responded with 'Succesful'"]
  /\ stdout[2] = [req |-> 2, text |-> "POST Request received and responded"]
  /\ stdout[3] = [req |-> 2, text |-> "\n"]

\* The steps main() can take, as pairs of positions.
StartupOrder ==
  {<<"start", "get_registered">>, <<"get_registered", "post_registered">>,
   <<"post_registered", "ssl_loaded">>, <<"post_registered", "aborted">>,
   <<"ssl_loaded", "running">>, <<"ssl_loaded", "aborted">>,
   <<"running", "returned">>, <<"running", "killed">>}

BothRoutes == RouteKeys = {<<"GET", "/">>, <<"POST", "/">>}
CredsLoaded == creds = <<"ssl/cert.pem", "ssl/key.pem">>

\* C18: main() registers GET /, then POST /, then loads the credentials, then
\* sets the port and starts the run loop, in this order only; so the
\* credentials are loaded with both routes registered, the port is set and
\* the listener bound with both routes and the credentials in place, the
\* listener always terminates TLS, and every request that was ever accepted
\* was accepted with both routes, the credentials and TLS in place.
C18_StartupOrder ==
  /\ [][pc' # pc => <<pc, pc'>> \in StartupOrder]_vars
  /\ [][routes' # routes => pc \in {"start", "get_registered"}]_vars
  /\ [][creds' # creds => pc = "post_registered" /\ BothRoutes]_vars
  /\ [][port' # port \/ (listening' /\ ~listening) \/ loop' = "running" =>
          /\ BothRoutes /\ CredsLoaded
          /\ pc \in {"ssl_loaded", "running"}]_vars
  /\ [](listening => tlsOn /\ CredsLoaded /\ BothRoutes /\ port = 18080)
  /\ [](\A i \in ReqIds :
          reqs[i].st # "none" => tlsOn /\ CredsLoaded /\ BothRoutes)

\* The server listens with TLS and has answered a request.
C18_Witness ==
  /\ listening /\ tlsOn
  /\ \E i \in ReqIds : reqs[i].st = "responded" /\ reqs[i].resp[1] = 200

====
